---- MODULE Spec2Model ----
(***************************************************************************)
(* Vibe Matcher (server.py): a product store with embeddings, a cosine     *)
(* similarity search over it and a log of query metrics.                   *)
(*                                                                         *)
(* Floats are fixed-point integers in units of 1/SimScale (five decimal    *)
(* places), so that round(similarity, 4) is a lossy conversion; a cosine   *)
(* is computed to within a few such units, as a float is to a few ulps.    *)
(* Optional values are sequences of length at most one: None is << >>.     *)
(* A product carries its name only; description, vibe_tags, category and   *)
(* image_url are copied verbatim by every handler and decide nothing.      *)
(* latency_ms is wall-clock dependent and is left out of the records.      *)
(***************************************************************************)
EXTENDS Integers, Sequences, FiniteSets

VARIABLES
  products,       \* db.products, in store iteration order
  query_metrics,  \* db.query_metrics, in insertion order
  op,             \* the handler that ran last
  req,            \* the body of its request
  fault,          \* the external call that failed in it, or "none"
  scored,         \* how many products it scored against a query embedding
  resp            \* its response

vars == <<products, query_metrics, op, req, fault, scored, resp>>

(* ---------------------------- bounds ---------------------------------- *)
\* largest number of records the products collection holds in the model
MaxProducts == 10
\* largest number of records in products that came from create_product
MaxCreated == 1
\* largest number of records the query_metrics collection holds in the model
MaxMetrics == 1

(* ------------------------ program constants --------------------------- *)
\* db.products.find(...).to_list(100)
FetchCap == 100
\* db.query_metrics.find(...).to_list(50)
MetricsCap == 50
\* round(similarity, 4): four decimal places
RoundDecimals == 10000
\* fixed-point unit of a float similarity: one decimal more than the rounding
SimScale == RoundDecimals * 10
\* "Good match found!" if ... similarity_score > 0.8
GoodMatchScore == (8 * SimScale) \div 10

None == << >>
Some(x) == <<x>>

(* ------------------------------ inputs -------------------------------- *)
\* the fixture of seed_products, by product name, in list order
sample_products ==
  << "Boho Maxi Dress", "Cozy Knit Sweater", "Urban Leather Jacket",
     "Minimalist Linen Pants", "Vintage Denim Jacket", "Athleisure Track Set",
     "Romantic Silk Blouse", "Grunge Plaid Shirt", "Tropical Print Shorts",
     "Sophisticated Blazer" >>

NumFixtures == Len(sample_products)

\* ProductCreate bodies a client posts
CreateInputs == {"Wool Lounge Cardigan", "Neon Mesh Top"}

\* VibeQuery bodies a client posts: vibe, limit in 1..10, threshold in [0,1]
VibeQuery(vibe, limit, threshold) ==
  [kind |-> "vibe", vibe |-> vibe, limit |-> limit, threshold |-> threshold]

Queries ==
  { VibeQuery("cozy and relaxed", 3, (7 * SimScale) \div 10),
    VibeQuery("cozy and relaxed", 1, (8 * SimScale) \div 10),
    VibeQuery("edgy night out", 2, (8 * SimScale) \div 10) }

\* every text the provider is asked to embed
Texts ==
  {sample_products[i] : i \in 1..NumFixtures} \cup CreateInputs
    \cup {q.vibe : q \in Queries}

(* ------------------------ embedding provider -------------------------- *)
\* create_text_embedding: a fixed vector per text, here of two dimensions
\* and of nearly equal length, as the provider's vectors are normalised
Embed(text) ==
  CASE text = "cozy and relaxed"       -> <<200, 70>>
    [] text = "edgy night out"         -> <<40, 205>>
    [] text = "Boho Maxi Dress"        -> <<118, 176>>
    [] text = "Cozy Knit Sweater"      -> <<198, 75>>
    [] text = "Urban Leather Jacket"   -> <<45, 204>>
    [] text = "Minimalist Linen Pants" -> <<133, 166>>
    [] text = "Vintage Denim Jacket"   -> <<129, 161>>
    [] text = "Athleisure Track Set"   -> <<207, 30>>
    [] text = "Romantic Silk Blouse"   -> <<105, 182>>
    [] text = "Grunge Plaid Shirt"     -> <<60, 200>>
    [] text = "Tropical Print Shorts"  -> <<10, 208>>
    [] text = "Sophisticated Blazer"   -> <<209, 10>>
    [] text = "Wool Lounge Cardigan"   -> <<116, 173>>
    [] text = "Neon Mesh Top"          -> <<75, 195>>

\* a generate_embedding that answers a zero vector when the provider raises
generate_embedding_ZeroFallback(text, providerOk) ==
  IF providerOk THEN [ok |-> TRUE, embedding |-> Embed(text)]
                ELSE [ok |-> TRUE, embedding |-> <<0, 0>>]

\* generate_embedding: the provider's vector, or HTTPException when it raises
generate_embedding(text, providerOk) ==
  IF providerOk THEN [ok |-> TRUE, embedding |-> Embed(text)]
                ELSE [ok |-> FALSE, embedding |-> None]

(* ------------------------- similarity engine -------------------------- *)
RECURSIVE ISqrtBits(_, _, _)
\* floor(sqrt(n)) by binary search on the bits of the root
ISqrtBits(n, r, b) ==
  IF b = 0 THEN r
  ELSE IF r + b <= n \div (r + b) THEN ISqrtBits(n, r + b, b \div 2)
       ELSE ISqrtBits(n, r, b \div 2)

ISqrt(n) == ISqrtBits(n, 0, 32768)

Dot(a, b) == a[1] * b[1] + a[2] * b[2]

\* sklearn's cosine_similarity: dot(a,b) / (|a| * |b|), truncated to the
\* fixed-point unit, and 0 for a vector of zero magnitude
cosine_similarity(a, b) ==
  LET dot == Dot(a, b)
      nn  == Dot(a, a) * Dot(b, b)
      s   == ISqrt(nn)
      hi  == (dot * 100) \div s
      lo  == (((dot * 100) % s) * (SimScale \div 100)) \div s
  IN IF nn = 0 THEN 0 ELSE hi * (SimScale \div 100) + lo

\* the vectors the provider returns, and the zero vector
EmbeddingSpace == {Embed(text) : text \in Texts} \cup {<<0, 0>>}

\* cosine_similarity over the embedding space, computed once
CosineTable ==
  [a \in EmbeddingSpace |-> [b \in EmbeddingSpace |-> cosine_similarity(a, b)]]

calculate_cosine_similarity(embedding1, embedding2) ==
  CosineTable[embedding1][embedding2]

\* round(x, 4): the nearest multiple of 1/RoundDecimals, ties to even
Round4(x) ==
  LET u == SimScale \div RoundDecimals
      q == x \div u
      r == x % u
  IN IF 2 * r > u \/ (2 * r = u /\ q % 2 = 1) THEN (q + 1) * u ELSE q * u

(* --------------------------- product store ---------------------------- *)
Min(a, b) == IF a <= b THEN a ELSE b

\* cursor.to_list(n): at most the first n documents
to_list(docs, n) == SubSeq(docs, 1, Min(Len(docs), n))

\* uuid4: an id no stored product carries
NewId(prods) == Len(prods) + 1

\* Product(...).model_dump(): the document inserted for a product
Product(prods, name, embedding) ==
  [id |-> NewId(prods), name |-> name, embedding |-> embedding]

\* product.get('embedding') is truthy
HasEmbedding(product) == product.embedding # None

Created(prods) == {i \in 1..Len(prods) : prods[i].name \in CreateInputs}

(* ------------------------- vibe search service ------------------------ *)
\* a threshold test that leaves out the threshold itself
Qualifies_Strict(similarity, threshold) == similarity > threshold

\* the similarity >= query.threshold test of the scoring loop
Qualifies(similarity, threshold) == similarity >= threshold

RECURSIVE ScoreProducts(_, _, _)
\* the scoring loop: one result per fetched product that has an embedding
\* and reaches the threshold, in store order
ScoreProducts(fetched, query_embedding, threshold) ==
  IF fetched = << >> THEN << >>
  ELSE LET product == Head(fetched)
           rest == ScoreProducts(Tail(fetched), query_embedding, threshold)
           similarity ==
             calculate_cosine_similarity(query_embedding, product.embedding)
       IN IF HasEmbedding(product) /\ Qualifies(similarity, threshold)
          THEN << [id |-> product.id, name |-> product.name,
                   similarity_score |-> Round4(similarity)] >> \o rest
          ELSE rest

\* an insertion that sorts ascending, as sort() without reverse=True
InsertDesc_Ascending(sorted, x) ==
  LET k == Cardinality({i \in 1..Len(sorted) :
                          sorted[i].similarity_score <= x.similarity_score})
  IN SubSeq(sorted, 1, k) \o <<x>> \o SubSeq(sorted, k + 1, Len(sorted))

\* position of x in a list sorted by descending score, after its equals
InsertDesc(sorted, x) ==
  LET k == Cardinality({i \in 1..Len(sorted) :
                          sorted[i].similarity_score >= x.similarity_score})
  IN SubSeq(sorted, 1, k) \o <<x>> \o SubSeq(sorted, k + 1, Len(sorted))

RECURSIVE SortResults(_)
\* results.sort(key=similarity_score, reverse=True): stable, descending
SortResults(results) ==
  IF results = << >> THEN << >>
  ELSE InsertDesc(SortResults(SubSeq(results, 1, Len(results) - 1)),
                  results[Len(results)])

\* a truncation that keeps one result too many
LimitResults_OneMore(results, limit) ==
  SubSeq(results, 1, Min(Len(results), limit + 1))

\* results[:query.limit]
LimitResults(results, limit) == SubSeq(results, 1, Min(Len(results), limit))

\* results[0]['similarity_score'] if results else None
TopScore(results) ==
  IF results # << >> THEN Some(results[1].similarity_score) ELSE None

\* a message whose good-match test includes 0.8 itself
QualityMessage_AtLeast(results) ==
  IF results # << >> /\ results[1].similarity_score >= GoodMatchScore
  THEN "Good match found!"
  ELSE IF results # << >> THEN "Matches found"
  ELSE "No matches above threshold. Try different vibes!"

\* the message of the response's metrics
QualityMessage(results) ==
  IF results # << >> /\ results[1].similarity_score > GoodMatchScore
  THEN "Good match found!"
  ELSE IF results # << >> THEN "Matches found"
  ELSE "No matches above threshold. Try different vibes!"

\* a metrics_doc that records the requested limit as the result count
MetricsDoc_CountsLimit(query, results, now) ==
  [query |-> query.vibe, results_count |-> query.limit,
   top_score |-> TopScore(results), timestamp |-> now]

\* metrics_doc, stamped with the time of insertion
MetricsDoc(query, results, now) ==
  [query |-> query.vibe, results_count |-> Len(results),
   top_score |-> TopScore(results), timestamp |-> now]

\* HTTPException(status_code=500, detail=...)
Error(detail) == [status |-> 500, detail |-> detail]

\* the response to a search that found the store empty
EmptyStoreResponse(query) ==
  [status |-> 200, results |-> << >>,
   metrics |-> [query |-> query.vibe, results_count |-> 0,
                top_score |-> None,
                message |-> "No products found. Please add products first."]]

\* the response to a search that ranked the fetched products
SearchResponse(query, results) ==
  [status |-> 200, results |-> results,
   metrics |-> [query |-> query.vibe, results_count |-> Len(results),
                top_score |-> TopScore(results),
                threshold_used |-> query.threshold,
                message |-> QualityMessage(results)]]

\* the ranking of search_by_vibe: score, filter, sort, truncate
RankProducts(fetched, query_embedding, query) ==
  LimitResults(SortResults(ScoreProducts(fetched, query_embedding,
                                         query.threshold)),
               query.limit)

\* the documents of query_metrics after a search that ranked products
MetricsAfterSearch(metrics, query, results) ==
  Append(metrics, MetricsDoc(query, results, Len(metrics) + 1))

\* what search_by_vibe does to the store and answers, given which of its
\* external calls succeed
SearchOutcome(prods, metrics, query, providerOk, findOk, insertOk) ==
  LET gen     == generate_embedding(query.vibe, providerOk)
      fetched == to_list(prods, FetchCap)
      results == RankProducts(fetched, gen.embedding, query)
      nscored == Cardinality({i \in 1..Len(fetched) : HasEmbedding(fetched[i])})
  IN IF ~gen.ok
     THEN [resp |-> Error("embedding"), metrics |-> metrics, scored |-> 0]
     ELSE IF ~findOk
     THEN [resp |-> Error("store"), metrics |-> metrics, scored |-> 0]
     ELSE IF fetched = << >>
     THEN [resp |-> EmptyStoreResponse(query), metrics |-> metrics,
           scored |-> 0]
     ELSE IF ~insertOk
     THEN [resp |-> Error("store"), metrics |-> metrics, scored |-> nscored]
     ELSE [resp |-> SearchResponse(query, results),
           metrics |-> MetricsAfterSearch(metrics, query, results),
           scored |-> nscored]

(* -------------------------- product ingestion ------------------------- *)
\* a create_product that stores the product although its embedding failed
ProductsAfterCreate_StoresUnembedded(prods, name, gen, insertOk) ==
  IF insertOk THEN Append(prods, Product(prods, name, gen.embedding))
  ELSE prods

\* db.products after create_product: the product is inserted once its
\* embedding is there and the insert succeeds
ProductsAfterCreate(prods, name, gen, insertOk) ==
  IF gen.ok /\ insertOk THEN Append(prods, Product(prods, name, gen.embedding))
  ELSE prods

RECURSIVE SeedLoop(_, _, _, _)
\* the loop of seed_products from fixture record i on; at record failAt the
\* call named by failing raises and ends the loop
SeedLoop(prods, i, failAt, failing) ==
  IF i > NumFixtures THEN prods
  ELSE LET gen == generate_embedding(sample_products[i],
                                     ~(i = failAt /\ failing = "embedding"))
       IN IF ~gen.ok THEN prods
          ELSE IF i = failAt THEN prods
          ELSE SeedLoop(Append(prods, Product(prods, sample_products[i],
                                              gen.embedding)),
                        i + 1, failAt, failing)

\* a seed that undoes its inserts when a record fails
ProductsAfterSeed_Rollback(prods, failAt, failing) ==
  IF failAt <= NumFixtures THEN prods
  ELSE SeedLoop(prods, 1, failAt, failing)

\* db.products after seed_products
ProductsAfterSeed(prods, failAt, failing) == SeedLoop(prods, 1, failAt, failing)

\* db.products after delete_all_products
ProductsAfterDelete(prods, deleteOk) == IF deleteOk THEN << >> ELSE prods

\* a delete_all_products that clears the metrics log with the products
MetricsAfterDelete_Clears(metrics, deleteOk) ==
  IF deleteOk THEN << >> ELSE metrics

\* db.query_metrics after delete_all_products: the handler does not touch it
MetricsAfterDelete(metrics, deleteOk) == metrics

(* ------------------------------ metrics ------------------------------- *)
\* position of m in a list sorted by descending timestamp
InsertNewest(sorted, m) ==
  LET k == Cardinality({i \in 1..Len(sorted) :
                          sorted[i].timestamp >= m.timestamp})
  IN SubSeq(sorted, 1, k) \o <<m>> \o SubSeq(sorted, k + 1, Len(sorted))

RECURSIVE SortNewest(_)
\* find(...).sort("timestamp", -1)
SortNewest(metrics) ==
  IF metrics = << >> THEN << >>
  ELSE InsertNewest(SortNewest(SubSeq(metrics, 1, Len(metrics) - 1)),
                    metrics[Len(metrics)])

(* ------------------------------ handlers ------------------------------ *)
NoRequest == [kind |-> "none"]

Init ==
  /\ products = << >>
  /\ query_metrics = << >>
  /\ op = "startup"
  /\ req = NoRequest
  /\ fault = "none"
  /\ scored = 0
  /\ resp = [status |-> 0]

root ==
  /\ op' = "root"
  /\ req' = NoRequest
  /\ fault' = "none"
  /\ scored' = 0
  /\ resp' = [status |-> 200, message |-> "Vibe Matcher API"]
  /\ UNCHANGED <<products, query_metrics>>

create_product ==
  /\ Len(products) < MaxProducts
  /\ Cardinality(Created(products)) < MaxCreated
  /\ \E name \in CreateInputs, providerOk \in BOOLEAN, insertOk \in BOOLEAN :
        LET gen == generate_embedding(name, providerOk)
            after == ProductsAfterCreate(products, name, gen, insertOk)
        IN \* no insert is attempted once the embedding failed
           /\ providerOk \/ insertOk
           /\ op' = "create_product"
           /\ req' = [kind |-> "product", name |-> name]
           /\ fault' = IF ~providerOk THEN "embedding"
                       ELSE IF ~insertOk THEN "store" ELSE "none"
           /\ scored' = 0
           /\ products' = after
           /\ resp' = IF ~gen.ok THEN Error("embedding")
                      ELSE IF ~insertOk THEN Error("store")
                      ELSE [status |-> 200,
                            product |-> Product(products, name, gen.embedding)]
           /\ UNCHANGED query_metrics

get_all_products ==
  /\ \E findOk \in BOOLEAN :
        /\ op' = "get_all_products"
        /\ req' = NoRequest
        /\ fault' = IF findOk THEN "none" ELSE "store"
        /\ scored' = 0
        /\ resp' = IF findOk
                   THEN [status |-> 200, products |-> to_list(products, FetchCap)]
                   ELSE Error("store")
        /\ UNCHANGED <<products, query_metrics>>

search_by_vibe ==
  /\ Len(query_metrics) < MaxMetrics
  /\ \E query \in Queries,
        failing \in {"none", "embedding", "find", "insert"} :
        LET out == SearchOutcome(products, query_metrics, query,
                                 failing # "embedding", failing # "find",
                                 failing # "insert")
        IN \* no insert is attempted on an empty store
           /\ failing = "insert" => products # << >>
           /\ op' = "search_by_vibe"
           /\ req' = query
           /\ fault' = IF failing = "none" THEN "none"
                       ELSE IF failing = "embedding" THEN "embedding"
                       ELSE "store"
           /\ scored' = out.scored
           /\ query_metrics' = out.metrics
           /\ resp' = out.resp
           /\ UNCHANGED products

get_metrics ==
  /\ \E findOk \in BOOLEAN :
        /\ op' = "get_metrics"
        /\ req' = NoRequest
        /\ fault' = IF findOk THEN "none" ELSE "store"
        /\ scored' = 0
        /\ resp' = IF findOk
                   THEN [status |-> 200,
                         metrics |-> to_list(SortNewest(query_metrics),
                                             MetricsCap)]
                   ELSE Error("store")
        /\ UNCHANGED <<products, query_metrics>>

delete_all_products ==
  /\ \E deleteOk \in BOOLEAN :
        /\ op' = "delete_all_products"
        /\ req' = NoRequest
        /\ fault' = IF deleteOk THEN "none" ELSE "store"
        /\ scored' = 0
        /\ products' = ProductsAfterDelete(products, deleteOk)
        /\ query_metrics' = MetricsAfterDelete(query_metrics, deleteOk)
        /\ resp' = IF deleteOk
                   THEN [status |-> 200, deleted_count |-> Len(products)]
                   ELSE Error("store")

seed_products ==
  /\ Len(products) + NumFixtures <= MaxProducts
  /\ \E failAt \in 1..(NumFixtures + 1), failing \in {"embedding", "store"} :
        LET after == ProductsAfterSeed(products, failAt, failing)
        IN /\ failAt = NumFixtures + 1 => failing = "store"
           /\ op' = "seed_products"
           /\ req' = [kind |-> "seed", failAt |-> failAt]
           /\ fault' = IF failAt > NumFixtures THEN "none" ELSE failing
           /\ scored' = 0
           /\ products' = after
           /\ resp' = IF failAt <= NumFixtures THEN Error(failing)
                      ELSE [status |-> 200,
                            message |-> "Products seeded successfully",
                            count |-> NumFixtures,
                            products |-> sample_products]
           /\ UNCHANGED query_metrics

Next ==
  \/ root
  \/ create_product
  \/ get_all_products
  \/ search_by_vibe
  \/ get_metrics
  \/ delete_all_products
  \/ seed_products

Spec == Init /\ [][Next]_vars

(* ------------------------------ claims -------------------------------- *)
\* the last call was a search that answered with a result list
SearchAnswered == op = "search_by_vibe" /\ resp.status = 200

\* the cosine similarity of stored product i to the last request's vibe
SimilarityOf(prods, query, i) ==
  calculate_cosine_similarity(Embed(query.vibe), prods[i].embedding)

\* the fetched products that have an embedding and reach the threshold
Qualifying(prods, query) ==
  {i \in 1..Min(Len(prods), FetchCap) :
     HasEmbedding(prods[i]) /\ SimilarityOf(prods, query, i) >= query.threshold}

ResultIds(results) == {results[j].id : j \in 1..Len(results)}

\* C1 (as claimed): every search_by_vibe call that answers appends exactly
\* one record to query_metrics, a search over an empty store included.
C1_OneMetricPerSearch ==
  [][(op' = "search_by_vibe" /\ resp'.status = 200)
       => Len(query_metrics') = Len(query_metrics) + 1]_vars

\* C2: every stored product has an embedding, and a create_product call
\* whose embedding generation fails returns an error and leaves products
\* as it was.
C2_NoProductWithoutEmbedding ==
  /\ [](\A i \in 1..Len(products) : HasEmbedding(products[i]))
  /\ [][(op' = "create_product" /\ fault' = "embedding")
          => (products' = products /\ resp'.status = 500)]_vars

C2_Witness ==
  /\ op = "create_product"
  /\ fault = "embedding"
  /\ resp.status = 500
  /\ products # << >>

\* C3: after a successful search no stored product whose cosine similarity
\* is strictly below the threshold is among the results, and a product
\* whose similarity equals the threshold is among them unless the limit
\* cut the list.
C3_ThresholdInclusive ==
  SearchAnswered =>
    \A i \in 1..Len(products) :
      HasEmbedding(products[i]) =>
        /\ SimilarityOf(products, req, i) < req.threshold
             => products[i].id \notin ResultIds(resp.results)
        /\ (i <= FetchCap /\ SimilarityOf(products, req, i) = req.threshold)
             => \/ products[i].id \in ResultIds(resp.results)
                \/ Len(resp.results) = req.limit

C3_Witness ==
  /\ SearchAnswered
  /\ \E i \in 1..Len(products) :
        /\ SimilarityOf(products, req, i) = req.threshold
        /\ products[i].id \in ResultIds(resp.results)
  /\ \E i \in 1..Len(products) :
        SimilarityOf(products, req, i) < req.threshold

\* C4: the results of a search are in non-increasing order of
\* similarity_score.
C4_SortedDescending ==
  SearchAnswered =>
    \A j \in 1..(Len(resp.results) - 1) :
      resp.results[j].similarity_score >= resp.results[j + 1].similarity_score

C4_Witness ==
  /\ SearchAnswered
  /\ Len(resp.results) >= 2
  /\ resp.results[1].similarity_score > resp.results[2].similarity_score
  /\ resp.results[1].id > resp.results[2].id

\* C5: a successful search returns at most limit results and at most as
\* many as there are fetched products with similarity >= threshold.
C5_AtMostLimitAndQualifying ==
  SearchAnswered =>
    /\ Len(resp.results) <= req.limit
    /\ Len(resp.results) <= Cardinality(Qualifying(products, req))

C5_Witness ==
  /\ SearchAnswered
  /\ Cardinality(Qualifying(products, req)) > req.limit
  /\ Len(resp.results) = req.limit

\* C6: a search whose query embedding fails answers an error: it returns
\* no result list and scores no product.
C6_EmbeddingFailureFailsSearch ==
  (op = "search_by_vibe" /\ fault = "embedding") =>
    /\ resp.status = 500
    /\ "results" \notin DOMAIN resp
    /\ scored = 0

C6_Witness ==
  /\ op = "search_by_vibe"
  /\ fault = "embedding"
  /\ resp.status = 500
  /\ products # << >>

\* C7: a seed that fails on its k-th record answers an error and leaves
\* products as it was plus the first k-1 fixture records, each with its
\* embedding, and nothing after them.
C7_PartialSeedKept ==
  [][(op' = "seed_products" /\ fault' # "none") =>
       LET k == req'.failAt
           n == Len(products)
       IN /\ resp'.status = 500
          /\ Len(products') = n + k - 1
          /\ SubSeq(products', 1, n) = products
          /\ \A j \in 1..(k - 1) :
                /\ products'[n + j].name = sample_products[j]
                /\ HasEmbedding(products'[n + j])]_vars

C7_Witness ==
  /\ op = "seed_products"
  /\ fault # "none"
  /\ resp.status = 500
  /\ req.failAt > 1
  /\ Len(products) >= req.failAt - 1
  /\ products[Len(products)].name = sample_products[req.failAt - 1]

C9_MetricAgreesWithResponse ==
  [][(op' = "search_by_vibe" /\ query_metrics' # query_metrics) =>
       LET m == query_metrics'[Len(query_metrics')]
           results == resp'.results
       IN /\ Len(query_metrics') = Len(query_metrics) + 1
          /\ resp'.status = 200
          /\ m.query = req'.vibe
          /\ m.results_count = Len(results)
          /\ m.results_count = resp'.metrics.results_count
          /\ m.results_count =
               Min(req'.limit, Cardinality(Qualifying(products, req')))
          /\ m.top_score = resp'.metrics.top_score
          /\ m.top_score = (IF Len(results) = 0 THEN None
                            ELSE Some(results[1].similarity_score))]_vars

C9_Witness ==
  /\ SearchAnswered
  /\ query_metrics # << >>
  /\ Len(resp.results) >= 1
  /\ Len(resp.results) < req.limit
  /\ query_metrics[Len(query_metrics)].top_score
       = Some(resp.results[1].similarity_score)

\* the cosine similarity of the first result's product to the request's vibe
FirstResultSimilarity ==
  LET i == CHOOSE i \in 1..Len(products) : products[i].id = resp.results[1].id
  IN SimilarityOf(products, req, i)

\* C10 (as claimed): over a non-empty store the message is "Good match
\* found!" if the cosine similarity of the first result exceeds 0.8,
\* otherwise "Matches found" if a result is returned, otherwise "No matches
\* above threshold. Try different vibes!".
C10_MessageBySimilarity ==
  (SearchAnswered /\ products # << >>) =>
    resp.metrics.message =
      (IF Len(resp.results) > 0 /\ FirstResultSimilarity > GoodMatchScore
       THEN "Good match found!"
       ELSE IF Len(resp.results) > 0 THEN "Matches found"
       ELSE "No matches above threshold. Try different vibes!")

\* C10 (amended): over a non-empty store the message is "Good match found!"
\* if the first result's similarity_score, its similarity rounded to four
\* decimals and reported as top_score, exceeds 0.8, otherwise "Matches
\* found" if a result is returned, otherwise "No matches above threshold.
\* Try different vibes!".
C10_MessageByRoundedScore ==
  (SearchAnswered /\ products # << >>) =>
    /\ resp.metrics.top_score =
         (IF Len(resp.results) > 0
          THEN Some(Round4(FirstResultSimilarity)) ELSE None)
    /\ resp.metrics.message =
         (IF Len(resp.results) > 0
             /\ Round4(FirstResultSimilarity) > GoodMatchScore
          THEN "Good match found!"
          ELSE IF Len(resp.results) > 0 THEN "Matches found"
          ELSE "No matches above threshold. Try different vibes!")

C10_Witness ==
  /\ SearchAnswered
  /\ Len(resp.results) > 0
  /\ FirstResultSimilarity > GoodMatchScore
  /\ resp.metrics.top_score = Some(GoodMatchScore)
  /\ resp.metrics.message = "Matches found"

====
